---- MODULE Spec2Model ----
(***************************************************************************)
(* Replay-based portfolio accounting of PredictAI (backend/main.py,        *)
(* backend/db.py, backend/logic.py): the transaction ledger, the reducer   *)
(* reconstruct_portfolio_state, the guardrails and the trade executor of   *)
(* investment_job, deposits, resets and the valuation history.             *)
(*                                                                         *)
(* Python floats are modelled as exact rationals [n, d] in lowest terms    *)
(* with d > 0: every formula below is about the arithmetic the code        *)
(* writes, not about binary rounding.                                      *)
(***************************************************************************)
EXTENDS Integers, Sequences, FiniteSets, TLC

VARIABLES
    phase,            \* "boot" before setup() has run, "running" after,
                      \* "nostore" after a cycle found the store unreachable
    has_models,       \* DecisionEngine.valid_models is non-empty (API key + genai)
    market,           \* which menu of answers the oracle draws from in this run
    current_balance,  \* main.py global current_balance
    portfolio,        \* main.py global portfolio: asset -> [shares, avg_price]
    txs,              \* table transactions, in insertion (id) order
    next_id,          \* AUTOINCREMENT counter of table transactions
    history,          \* table portfolio_history, in insertion order
    last,             \* what the last completed operation was given and did
    job               \* per thread: position and locals of investment_job

vars == <<phase, has_models, market, current_balance, portfolio, txs, next_id,
          history, last, job>>

----------------------------------------------------------------------------
(* Exact rational arithmetic standing for Python float arithmetic.         *)

RECURSIVE Gcd(_, _)
Gcd(a, b) == IF b = 0 THEN a ELSE Gcd(b, a % b)

Abs(x) == IF x < 0 THEN -x ELSE x

Norm(n, d) ==
    LET s == IF d < 0 THEN -1 ELSE 1
        g == Gcd(Abs(n), Abs(d))
    IN  [n |-> (s * n) \div g, d |-> (s * d) \div g]

R(n, d) == Norm(n, d)

Zero == R(0, 1)
One == R(1, 1)

Lcm(a, b) == (a \div Gcd(a, b)) * b

RAdd(x, y) ==
    LET l == Lcm(x.d, y.d)
    IN  Norm(x.n * (l \div x.d) + y.n * (l \div y.d), l)

RNeg(x) == [n |-> -x.n, d |-> x.d]

RSub(x, y) == RAdd(x, RNeg(y))

RMul(x, y) ==
    LET g1 == Gcd(Abs(x.n), y.d)
        g2 == Gcd(Abs(y.n), x.d)
    IN  IF x.n = 0 \/ y.n = 0 THEN Zero
        ELSE Norm((x.n \div g1) * (y.n \div g2), (x.d \div g2) * (y.d \div g1))

\* Python raises ZeroDivisionError on a zero divisor: callers guard y # 0.
RDiv(x, y) == RMul(x, Norm(y.d, y.n))

RLt(x, y) ==
    LET l == Lcm(x.d, y.d)
    IN  x.n * (l \div x.d) < y.n * (l \div y.d)

RLe(x, y) == ~RLt(y, x)
RGt(x, y) == RLt(y, x)
RGe(x, y) == ~RLt(x, y)

RMax(x, y) == IF RLt(x, y) THEN y ELSE x

----------------------------------------------------------------------------
(* Data.                                                                   *)

\* Python None / SQL NULL in a numeric place: no rational has d = 0.
NULL == [n |-> 0, d |-> 0]

\* Python None / SQL NULL in a text place.
NoAsset == "None"

\* Asset symbols the oracle can name.
Assets == {"NVDA", "BTC-USD", "POLY:foo"}

\* asset_name.startswith("POLY:") over the symbols above.
StartsWithPoly(asset) == asset \in {"POLY:foo"}

\* The empty dict {}.
EmptyPortfolio == [a \in {} |-> [shares |-> Zero, avg_price |-> Zero]]

\* portfolio with portfolio[asset] = pos.
PutPosition(port, asset, pos) ==
    [a \in (DOMAIN port) \cup {asset} |-> IF a = asset THEN pos ELSE port[a]]

\* del portfolio[asset].
DelPosition(port, asset) == [a \in (DOMAIN port) \ {asset} |-> port[a]]

RECURSIVE SumValue(_, _)
SumValue(port, S) ==
    IF S = {} THEN Zero
    ELSE LET a == CHOOSE x \in S : TRUE
         IN  RAdd(RMul(port[a].shares, port[a].avg_price), SumValue(port, S \ {a}))

\* sum(v['shares'] * v['avg_price'] for v in portfolio.values())
HoldingsValue(port) == SumValue(port, DOMAIN port)

\* 0.000001, the float epsilon under which a position is deleted.
Epsilon == R(1, 1000000)

----------------------------------------------------------------------------
(* The database (db.py).  A timestamp is datetime.now().isoformat(); the   *)
(* ISO strings compare as the instants do, so a timestamp is a number, and *)
(* the clock read by an insert is later than every timestamp stored.       *)

RECURSIVE MaxStamp(_)
MaxStamp(rows) ==
    IF rows = <<>> THEN 0
    ELSE LET m == MaxStamp(Tail(rows))
         IN  IF Head(rows).ts > m THEN Head(rows).ts ELSE m

Clock(db) ==
    LET a == MaxStamp(db.txs)
        b == MaxStamp(db.history)
    IN  1 + (IF a > b THEN a ELSE b)

\* No database file yet: sqlite3.connect creates it empty.
EmptyDb == [txs |-> <<>>, next_id |-> 1, history |-> <<>>]

log_portfolio_value(db, value) ==
    [db EXCEPT !.history = Append(@, [ts |-> Clock(db), total_value |-> value])]

\* log_transaction writing its row in front of the rows stored.
log_transaction_Prepends(db, category, amount, asset, detail, price, gain) ==
    [db EXCEPT
        !.txs = <<[id |-> db.next_id, ts |-> Clock(db),
                   category |-> category, amount |-> amount,
                   asset |-> asset, detail |-> detail,
                   price |-> price, gain |-> gain]>> \o @,
        !.next_id = @ + 1]

log_transaction(db, category, amount, asset, detail, price, gain) ==
    [db EXCEPT
        !.txs = Append(@, [id |-> db.next_id, ts |-> Clock(db),
                           category |-> category, amount |-> amount,
                           asset |-> asset, detail |-> detail,
                           price |-> price, gain |-> gain]),
        !.next_id = @ + 1]

\* CREATE TABLE IF NOT EXISTS ...; seed both tables when portfolio_history
\* is empty.
init_db(db) ==
    IF Len(db.history) = 0
    THEN log_transaction(log_portfolio_value(db, R(100, 1)),
                         "DEPOSIT", R(100, 1), "USD", "Initial Deposit", NULL, Zero)
    ELSE db

\* reset_db without its two DROP TABLE statements.
reset_db_keeps_tables(db) == init_db(db)

\* DROP TABLE both tables (the AUTOINCREMENT counter goes with the table),
\* then init_db().
reset_db(db) == init_db(EmptyDb)

\* SELECT SUM(amount) FROM transactions WHERE category=cat (NULLs add nothing).
RECURSIVE SumCategory(_, _)
SumCategory(rows, cat) ==
    IF rows = <<>> THEN Zero
    ELSE RAdd(IF Head(rows).category = cat /\ Head(rows).amount # NULL
              THEN Head(rows).amount ELSE Zero,
              SumCategory(Tail(rows), cat))

\* float(result or 0.0) of the DEPOSIT sum.
get_total_deposited(db) == SumCategory(db.txs, "DEPOSIT")

\* The row orders "ORDER BY timestamp ASC" can return: ascending timestamps,
\* rows of equal timestamp in any order (the query names no second key).
RECURSIVE OrdersOf(_, _)
OrdersOf(rows, S) ==
    IF S = {} THEN {<<>>}
    ELSE UNION {
        {<<rows[i]>> \o rest : rest \in OrdersOf(rows, S \ {i})} :
            i \in {k \in S : \A j \in S : rows[k].ts <= rows[j].ts}}

FetchOrders(rows) == OrdersOf(rows, DOMAIN rows)

\* float(x or default)
FloatOr(x, default) == IF x = NULL \/ x = Zero THEN default ELSE x

\* ReduceRow with the SELL credit moved under "if asset in portfolio".
ReduceRow_SellCreditsOnlyHeld(st, row) ==
    LET amt == FloatOr(row.amount, Zero)
        px0 == FloatOr(row.price, One)
        px  == IF RLe(px0, Zero) THEN One ELSE px0
        asset == row.asset
        held == asset \in DOMAIN st.portfolio
    IN  CASE row.category = "DEPOSIT" ->
                [st EXCEPT !.balance = RAdd(@, amt)]
          [] row.category = "BUY" ->
                LET shares_bought == RDiv(amt, px)
                    current_shares == IF held THEN st.portfolio[asset].shares ELSE Zero
                    current_avg == IF held THEN st.portfolio[asset].avg_price ELSE Zero
                    total_shares == RAdd(current_shares, shares_bought)
                    new_avg == IF RGt(total_shares, Zero)
                               THEN RDiv(RAdd(RMul(current_shares, current_avg),
                                              RMul(shares_bought, px)), total_shares)
                               ELSE px
                IN  [balance |-> RSub(st.balance, amt),
                     portfolio |-> PutPosition(st.portfolio, asset,
                                     [shares |-> total_shares, avg_price |-> new_avg])]
          [] row.category = "SELL" /\ held ->
                LET shares_sold == RDiv(amt, px)
                    left == RMax(Zero, RSub(st.portfolio[asset].shares, shares_sold))
                IN  [balance |-> RAdd(st.balance, amt),
                     portfolio |->
                        IF RLt(left, Epsilon) THEN DelPosition(st.portfolio, asset)
                        ELSE PutPosition(st.portfolio, asset,
                                [shares |-> left,
                                 avg_price |-> st.portfolio[asset].avg_price])]
          [] OTHER -> st

\* ReduceRow without "if px <= 0: px = 1.0".
ReduceRow_NoClamp(st, row) ==
    LET amt == FloatOr(row.amount, Zero)
        px0 == FloatOr(row.price, One)
        px  == px0
        asset == row.asset
        held == asset \in DOMAIN st.portfolio
    IN  CASE row.category = "DEPOSIT" ->
                [st EXCEPT !.balance = RAdd(@, amt)]
          [] row.category = "BUY" ->
                LET shares_bought == RDiv(amt, px)
                    current_shares == IF held THEN st.portfolio[asset].shares ELSE Zero
                    current_avg == IF held THEN st.portfolio[asset].avg_price ELSE Zero
                    total_shares == RAdd(current_shares, shares_bought)
                    new_avg == IF RGt(total_shares, Zero)
                               THEN RDiv(RAdd(RMul(current_shares, current_avg),
                                              RMul(shares_bought, px)), total_shares)
                               ELSE px
                IN  [balance |-> RSub(st.balance, amt),
                     portfolio |-> PutPosition(st.portfolio, asset,
                                     [shares |-> total_shares, avg_price |-> new_avg])]
          [] row.category = "SELL" ->
                LET shares_sold == RDiv(amt, px)
                    left == RMax(Zero, RSub(st.portfolio[asset].shares, shares_sold))
                IN  [balance |-> RAdd(st.balance, amt),
                     portfolio |->
                        IF ~held THEN st.portfolio
                        ELSE IF RLt(left, Epsilon) THEN DelPosition(st.portfolio, asset)
                        ELSE PutPosition(st.portfolio, asset,
                                [shares |-> left,
                                 avg_price |-> st.portfolio[asset].avg_price])]
          [] OTHER -> st

\* ReduceRow with the SELL setting avg_price to the sale's price.
ReduceRow_SellReaverages(st, row) ==
    LET amt == FloatOr(row.amount, Zero)
        px0 == FloatOr(row.price, One)
        px  == IF RLe(px0, Zero) THEN One ELSE px0
        asset == row.asset
        held == asset \in DOMAIN st.portfolio
    IN  CASE row.category = "DEPOSIT" ->
                [st EXCEPT !.balance = RAdd(@, amt)]
          [] row.category = "BUY" ->
                LET shares_bought == RDiv(amt, px)
                    current_shares == IF held THEN st.portfolio[asset].shares ELSE Zero
                    current_avg == IF held THEN st.portfolio[asset].avg_price ELSE Zero
                    total_shares == RAdd(current_shares, shares_bought)
                    new_avg == IF RGt(total_shares, Zero)
                               THEN RDiv(RAdd(RMul(current_shares, current_avg),
                                              RMul(shares_bought, px)), total_shares)
                               ELSE px
                IN  [balance |-> RSub(st.balance, amt),
                     portfolio |-> PutPosition(st.portfolio, asset,
                                     [shares |-> total_shares, avg_price |-> new_avg])]
          [] row.category = "SELL" ->
                LET shares_sold == RDiv(amt, px)
                    left == RMax(Zero, RSub(st.portfolio[asset].shares, shares_sold))
                IN  [balance |-> RAdd(st.balance, amt),
                     portfolio |->
                        IF ~held THEN st.portfolio
                        ELSE IF RLt(left, Epsilon) THEN DelPosition(st.portfolio, asset)
                        ELSE PutPosition(st.portfolio, asset,
                                [shares |-> left, avg_price |-> px])]
          [] OTHER -> st

\* ReduceRow with a last branch that takes a fee of 1.0 from the cash.
ReduceRow_HoldCharges(st, row) ==
    LET amt == FloatOr(row.amount, Zero)
        px0 == FloatOr(row.price, One)
        px  == IF RLe(px0, Zero) THEN One ELSE px0
        asset == row.asset
        held == asset \in DOMAIN st.portfolio
    IN  CASE row.category = "DEPOSIT" ->
                [st EXCEPT !.balance = RAdd(@, amt)]
          [] row.category = "BUY" ->
                LET shares_bought == RDiv(amt, px)
                    current_shares == IF held THEN st.portfolio[asset].shares ELSE Zero
                    current_avg == IF held THEN st.portfolio[asset].avg_price ELSE Zero
                    total_shares == RAdd(current_shares, shares_bought)
                    new_avg == IF RGt(total_shares, Zero)
                               THEN RDiv(RAdd(RMul(current_shares, current_avg),
                                              RMul(shares_bought, px)), total_shares)
                               ELSE px
                IN  [balance |-> RSub(st.balance, amt),
                     portfolio |-> PutPosition(st.portfolio, asset,
                                     [shares |-> total_shares, avg_price |-> new_avg])]
          [] row.category = "SELL" ->
                LET shares_sold == RDiv(amt, px)
                    left == RMax(Zero, RSub(st.portfolio[asset].shares, shares_sold))
                IN  [balance |-> RAdd(st.balance, amt),
                     portfolio |->
                        IF ~held THEN st.portfolio
                        ELSE IF RLt(left, Epsilon) THEN DelPosition(st.portfolio, asset)
                        ELSE PutPosition(st.portfolio, asset,
                                [shares |-> left,
                                 avg_price |-> st.portfolio[asset].avg_price])]
          [] OTHER -> [st EXCEPT !.balance = RSub(@, One)]

\* One iteration of the loop of reconstruct_portfolio_state.
ReduceRow(st, row) ==
    LET amt == FloatOr(row.amount, Zero)
        px0 == FloatOr(row.price, One)
        px  == IF RLe(px0, Zero) THEN One ELSE px0
        asset == row.asset
        held == asset \in DOMAIN st.portfolio
    IN  CASE row.category = "DEPOSIT" ->
                [st EXCEPT !.balance = RAdd(@, amt)]
          [] row.category = "BUY" ->
                LET shares_bought == RDiv(amt, px)
                    current_shares == IF held THEN st.portfolio[asset].shares ELSE Zero
                    current_avg == IF held THEN st.portfolio[asset].avg_price ELSE Zero
                    total_shares == RAdd(current_shares, shares_bought)
                    new_avg == IF RGt(total_shares, Zero)
                               THEN RDiv(RAdd(RMul(current_shares, current_avg),
                                              RMul(shares_bought, px)), total_shares)
                               ELSE px
                IN  [balance |-> RSub(st.balance, amt),
                     portfolio |-> PutPosition(st.portfolio, asset,
                                     [shares |-> total_shares, avg_price |-> new_avg])]
          [] row.category = "SELL" ->
                LET shares_sold == RDiv(amt, px)
                    left == RMax(Zero, RSub(st.portfolio[asset].shares, shares_sold))
                IN  [balance |-> RAdd(st.balance, amt),
                     portfolio |->
                        IF ~held THEN st.portfolio
                        ELSE IF RLt(left, Epsilon) THEN DelPosition(st.portfolio, asset)
                        ELSE PutPosition(st.portfolio, asset,
                                [shares |-> left,
                                 avg_price |-> st.portfolio[asset].avg_price])]
          [] OTHER -> st

RECURSIVE ReduceFrom(_, _)
ReduceFrom(st, rows) ==
    IF rows = <<>> THEN st ELSE ReduceFrom(ReduceRow(st, Head(rows)), Tail(rows))

\* The loop starting from the balance of the process instead of 0.0.
Reduce_FromLive(rows) ==
    ReduceFrom([balance |-> current_balance, portfolio |-> EmptyPortfolio], rows)

\* The loop of reconstruct_portfolio_state over the fetched rows.
Reduce(rows) == ReduceFrom([balance |-> Zero, portfolio |-> EmptyPortfolio], rows)

\* What reconstruct_portfolio_state() can return on a transactions table.
reconstruct_portfolio_state(rows) == {Reduce(o) : o \in FetchOrders(rows)}

----------------------------------------------------------------------------
(* The decision oracle (logic.py).                                         *)

\* 0.75 and 0.99 of the price guardrail of get_market_analysis.
MaxBuyPrice == R(3, 4)
PredictionPriceBound == R(99, 100)

\* A decision dict: keys the JSON lacks (or null) are NULL / NoAsset.
Decision(action, asset, amount, price, reasoning) ==
    [action |-> action, asset |-> asset, amount |-> amount, price |-> price,
     reasoning |-> reasoning]

\* The model's JSON returned without the HARD GUARDRAILS block.
PriceGuardrail_Off(decision) == decision

\* The HARD GUARDRAILS block applied to the JSON a model returned.
\* float(decision.get("price", 0)) raises on null and the bare except
\* passes, leaving the decision as it is.
PriceGuardrail(decision) ==
    IF decision.action = "BUY" /\ decision.price # NULL
       /\ (StartsWithPoly(decision.asset) \/ RLt(decision.price, PredictionPriceBound))
       /\ RGt(decision.price, MaxBuyPrice)
    THEN Decision("HOLD", decision.asset, Zero, decision.price, "BLOCKED")
    ELSE decision

\* The loop over the models returning the last proposal it had parsed.
AllModelsFailed_Buy == Decision("BUY", "NVDA", R(10, 1), R(4, 5), "m")

\* The return after the loop over the models: every model failed.
AllModelsFailed == Decision("HOLD", NoAsset, NULL, NULL, "All models unavailable")

\* get_market_analysis: with no valid model the simulated decision is
\* returned as it is; else the first model's JSON through the guardrail, or
\* the HOLD after every model has failed (raw = AllModelsFailed).
get_market_analysis(models, raw) ==
    IF ~models THEN raw
    ELSE IF raw = AllModelsFailed THEN raw
    ELSE PriceGuardrail(raw)

----------------------------------------------------------------------------
(* investment_job (main.py): guardrails and trade execution.               *)

\* 0.40 of the diversification guardrail and its $2 floor.
MaxPositionShare == R(2, 5)
MinAllowedBuy == R(2, 1)

\* The BUY branch's update of portfolio[asset] (weighted average price).
BuyPosition(port, asset, amount, price) ==
    LET held == asset \in DOMAIN port
        shares_bought == RDiv(amount, price)
        curr_shares == IF held THEN port[asset].shares ELSE Zero
        curr_avg == IF held THEN port[asset].avg_price ELSE Zero
        total_shares == RAdd(curr_shares, shares_bought)
        new_avg == IF RGt(total_shares, Zero)
                   THEN RDiv(RAdd(RMul(curr_shares, curr_avg),
                                  RMul(shares_bought, price)), total_shares)
                   ELSE price
    IN  PutPosition(port, asset, [shares |-> total_shares, avg_price |-> new_avg])

\* The SELL branch's update of portfolio[asset], with the cleanup.
SellPosition(port, asset, amount, price) ==
    LET left == RSub(port[asset].shares, RDiv(amount, price))
    IN  IF RLt(left, Epsilon) THEN DelPosition(port, asset)
        ELSE PutPosition(port, asset,
                [shares |-> left, avg_price |-> port[asset].avg_price])

\* gain_pct as a fraction, without the factor 100.
GainPct_Fraction(price, avg_buy_price) ==
    IF RGt(avg_buy_price, Zero)
    THEN RDiv(RSub(price, avg_buy_price), avg_buy_price)
    ELSE Zero

\* gain_pct of the SELL branch.
GainPct(price, avg_buy_price) ==
    IF RGt(avg_buy_price, Zero)
    THEN RMul(RDiv(RSub(price, avg_buy_price), avg_buy_price), R(100, 1))
    ELSE Zero

\* The shares check reduced to "asset in portfolio".
SharesOk_HeldOnly(port, asset, amount, price) == asset \in DOMAIN port

\* Lines 133-139: asset in portfolio and
\* portfolio[asset]['shares'] >= amount / price.
SharesOk(port, asset, amount, price) ==
    /\ asset \in DOMAIN port
    /\ RGe(port[asset].shares, RDiv(amount, price))

\* The funds check without its "and amount > 0".
FundsOk_BalanceOnly(bal, amount) == RGe(bal, amount)

\* Line 110: current_balance >= amount and amount > 0.
FundsOk(bal, amount) == RGe(bal, amount) /\ RGt(amount, Zero)

\* The diversification guardrail with the cap left out: the proposed amount
\* goes through when there is room for $2 or more.
Diversify_NoCap(port, total_portfolio_value, asset, amount) ==
    LET current_asset_val == IF asset \in DOMAIN port
                             THEN RMul(port[asset].shares, port[asset].avg_price)
                             ELSE Zero
        max_position_size == RMul(total_portfolio_value, MaxPositionShare)
        proposed_total == RAdd(current_asset_val, amount)
        allowed_buy == RSub(max_position_size, current_asset_val)
    IN  [block |-> RGt(proposed_total, max_position_size)
                    /\ RLt(allowed_buy, MinAllowedBuy),
         amount |-> amount]

\* The diversification guardrail on a BUY: "block", or the amount to buy.
Diversify(port, total_portfolio_value, asset, amount) ==
    LET current_asset_val == IF asset \in DOMAIN port
                             THEN RMul(port[asset].shares, port[asset].avg_price)
                             ELSE Zero
        max_position_size == RMul(total_portfolio_value, MaxPositionShare)
        proposed_total == RAdd(current_asset_val, amount)
        allowed_buy == RSub(max_position_size, current_asset_val)
    IN  IF RGt(proposed_total, max_position_size)
        THEN IF RLt(allowed_buy, MinAllowedBuy)
             THEN [block |-> TRUE, amount |-> amount]
             ELSE [block |-> FALSE, amount |-> allowed_buy]
        ELSE [block |-> FALSE, amount |-> amount]

\* The body of investment_job from the decision to the end of the action
\* branches, run without interruption on balance bal and portfolio port:
\* the new balance and portfolio, the rows handed to log_transaction, and
\* whether the function goes on to the valuation (the diversification block
\* returns before it).
Execute(bal, port, decision) ==
    LET total_portfolio_value == RAdd(bal, HoldingsValue(port))
        action == decision.action
        asset == decision.asset
        amount0 == FloatOr(decision.amount, Zero)
        price == FloatOr(decision.price, One)
        reasoning == decision.reasoning
        same == [balance |-> bal, portfolio |-> port, rows |-> <<>>,
                 valued |-> TRUE, outcome |-> "NONE", amount |-> amount0,
                 price |-> price]
        row(cat, amt, detail, gain) ==
            [category |-> cat, amount |-> amt, asset |-> asset,
             detail |-> detail, price |-> price, gain |-> gain]
    IN  CASE action = "BUY" ->
                LET dv == Diversify(port, total_portfolio_value, asset, amount0)
                    amount == dv.amount
                IN  IF dv.block
                    THEN [same EXCEPT
                            !.rows = <<row("WATCH", Zero,
                                           "Diversification limit reached (Max 40%)", Zero)>>,
                            !.valued = FALSE, !.outcome = "DIV_BLOCK"]
                    ELSE IF FundsOk(bal, amount)
                    THEN [same EXCEPT
                            !.balance = RSub(bal, amount),
                            !.portfolio = BuyPosition(port, asset, amount, price),
                            !.rows = <<row("BUY", amount, reasoning, Zero)>>,
                            !.outcome = "BUY", !.amount = amount]
                    ELSE [same EXCEPT !.outcome = "NO_FUNDS", !.amount = amount]
          [] action = "SELL" ->
                IF asset \in DOMAIN port
                THEN IF SharesOk(port, asset, amount0, price)
                     THEN [same EXCEPT
                            !.balance = RAdd(bal, amount0),
                            !.portfolio = SellPosition(port, asset, amount0, price),
                            !.rows = <<row("SELL", amount0, reasoning,
                                           GainPct(price, port[asset].avg_price))>>,
                            !.outcome = "SELL"]
                     ELSE [same EXCEPT !.outcome = "NO_SHARES"]
                ELSE [same EXCEPT !.outcome = "NOT_HELD"]
          [] action = "HOLD" ->
                IF asset \in DOMAIN port /\ RGt(port[asset].shares, Zero)
                THEN [same EXCEPT !.rows = <<row("HOLD", Zero, reasoning, Zero)>>,
                                  !.outcome = "HOLD"]
                ELSE [same EXCEPT !.rows = <<row("WATCH", Zero, reasoning, Zero)>>,
                                  !.outcome = "WATCH"]
          [] action = "WATCH" ->
                [same EXCEPT !.rows = <<row("WATCH", Zero, reasoning, Zero)>>,
                             !.outcome = "WATCH"]
          [] OTHER -> same

\* random.uniform(0.99, 1.01): its two ends.
Fluctuations == {R(99, 100), R(101, 100)}

\* log_value of the valuation at the end of investment_job.
LogValue(bal, port, fluctuation) ==
    LET total_holdings_val == HoldingsValue(port)
    IN  IF RGt(total_holdings_val, Zero)
        THEN RAdd(bal, RMul(total_holdings_val, fluctuation))
        ELSE RAdd(bal, Zero)

\* log_transaction for each row of a (zero or one row) list.
LogRows(db, rows) ==
    IF rows = <<>> THEN db
    ELSE log_transaction(db, rows[1].category, rows[1].amount, rows[1].asset,
                         rows[1].detail, rows[1].price, rows[1].gain)

----------------------------------------------------------------------------
(* Inputs and bounds.                                                      *)

\* Most rows the two tables hold together in the runs explored.
MaxRows == 8

Fits(db) == Len(db.txs) + Len(db.history) <= MaxRows

\* JSON decisions a model can answer with.  Any JSON is possible; the menus
\* hold the cases the guardrails and the arithmetic distinguish, grouped by
\* the kind of answers the models give in one run of the process.
ModelMenu(m) ==
    CASE m = "cap" -> {
            Decision("BUY",  "NVDA",     R(50, 1), R(2, 1),      "m"),
            Decision("BUY",  "NVDA",     R(20, 1), R(4, 1),      "m"),
            Decision("BUY",  "POLY:foo", R(40, 1), R(1, 2),      "m"),
            Decision("BUY",  "BTC-USD",  R(30, 1), R(100000, 1), "m") }
      [] m = "trade" -> {
            Decision("BUY",  "NVDA",     R(40, 1), R(2, 1),      "m"),
            Decision("BUY",  "NVDA",     R(20, 1), R(4, 1),      "m"),
            Decision("SELL", "NVDA",     R(30, 1), R(3, 1),      "m"),
            Decision("SELL", "NVDA",     R(40, 1), R(2, 1),      "m") }
      [] m = "prediction" -> {
            Decision("BUY",  "POLY:foo", R(40, 1), R(1, 2),      "m"),
            Decision("BUY",  "POLY:foo", R(10, 1), R(4, 5),      "m"),
            Decision("BUY",  "NVDA",     R(10, 1), R(4, 5),      "m"),
            Decision("HOLD", "POLY:foo", Zero,     R(1, 2),      "m"),
            AllModelsFailed }
      [] m = "badprice" -> {
            Decision("BUY",  "NVDA",     R(10, 1), R(-2, 1),     "m"),
            Decision("BUY",  "NVDA",     R(10, 1), R(4, 1),      "m"),
            Decision("BUY",  "NVDA",     R(10, 1), NULL,         "m"),
            Decision("BUY",  "POLY:foo", R(10, 1), NULL,         "m"),
            Decision("SELL", "NVDA",     R(5, 1),  Zero,         "m"),
            Decision("SELL", "NVDA",     R(10, 1), R(-2, 1),     "m") }
      [] m = "badamount" -> {
            Decision("BUY",  "NVDA",     R(10, 1), R(2, 1),      "m"),
            Decision("BUY",  "NVDA",     NULL,     R(2, 1),      "m"),
            Decision("SELL", "NVDA",     R(-10, 1), R(2, 1),     "m"),
            Decision("BUY",  "BTC-USD",  R(1, 20), R(100000, 1), "m") }

\* Decisions _simulate_decision can draw: any of the four actions, amount in
\* [5, 50], a POLY: asset priced in [0.01, 0.99] or a ticker priced in
\* [100, 3000].
SimMenu == {
    Decision("BUY",  "POLY:foo", R(40, 1), R(1, 2),   "s"),
    Decision("BUY",  "POLY:foo", R(10, 1), R(4, 5),   "s"),
    Decision("SELL", "POLY:foo", R(20, 1), R(1, 2),   "s"),
    Decision("HOLD", "POLY:foo", R(10, 1), R(1, 2),   "s"),
    Decision("WATCH", "NVDA",    R(10, 1), R(100, 1), "s") }

\* The oracle configurations of a run: no valid model (simulated decisions),
\* or a model chain answering from one of the menus.
Oracles == {<<FALSE, "simulated">>, <<TRUE, "cap">>, <<TRUE, "trade">>,
            <<TRUE, "prediction">>, <<TRUE, "badprice">>, <<TRUE, "badamount">>}

\* What the oracle can be asked to return in this process.
RawDecisions == IF has_models THEN ModelMenu(market) ELSE SimMenu

Threads == {"timer", "manual1", "manual2"}

Idle == [pc |-> "idle"]

NoOp == [op |-> "none"]

----------------------------------------------------------------------------
(* Operations run one at a time.                                           *)

Db == [txs |-> txs, next_id |-> next_id, history |-> history]

SetDb(db) ==
    /\ txs' = db.txs
    /\ next_id' = db.next_id
    /\ history' = db.history

Init ==
    /\ phase = "boot"
    /\ \E o \in Oracles : has_models = o[1] /\ market = o[2]
    /\ current_balance = R(100, 1)
    /\ portfolio = EmptyPortfolio
    /\ txs = <<>>
    /\ next_id = 1
    /\ history = <<>>
    /\ last = NoOp
    /\ job = [t \in Threads |-> Idle]

\* setup(): init_db, load the state from the ledger, log the value.
Startup(op) ==
    LET db1 == init_db(Db)
    IN  \E st \in reconstruct_portfolio_state(db1.txs) :
            LET db2 == log_portfolio_value(db1,
                            RAdd(st.balance, HoldingsValue(st.portfolio)))
            IN  /\ Fits(db2)
                /\ current_balance' = st.balance
                /\ portfolio' = st.portfolio
                /\ SetDb(db2)
            /\ last' = [op |-> op]
            /\ phase' = "running"
            /\ UNCHANGED <<has_models, market, job>>

Setup ==
    /\ phase = "boot"
    /\ Startup("setup")

\* The process is stopped and started again: the globals are rebuilt by
\* setup() from the database the last process left.
Restart ==
    /\ phase = "running"
    /\ Len(txs) + Len(history) < MaxRows
    /\ Startup("restart")

\* investment_job() from its first line to its last, on the oracle's raw
\* answer and the valuation's random draw.
InvestmentJob(raw, fluctuation) ==
    /\ phase = "running"
    /\ Len(txs) + Len(history) < MaxRows
    /\ LET decision == get_market_analysis(has_models, raw)
           r == Execute(current_balance, portfolio, decision)
           db1 == LogRows(Db, r.rows)
           db2 == IF r.valued
                  THEN log_portfolio_value(db1,
                            LogValue(r.balance, r.portfolio, fluctuation))
                  ELSE db1
       IN  /\ Fits(db2)
           /\ current_balance' = r.balance
           /\ portfolio' = r.portfolio
           /\ SetDb(db2)
           /\ last' = [op |-> "cycle", raw |-> raw, decision |-> decision,
                       outcome |-> r.outcome, amount |-> r.amount,
                       price |-> r.price,
                       balance |-> current_balance, portfolio |-> portfolio,
                       ntx |-> Len(txs), nhist |-> Len(history)]
    /\ UNCHANGED <<phase, has_models, market, job>>

\* POST /api/deposit
deposit_funds ==
    /\ phase = "running"
    /\ Len(txs) + Len(history) < MaxRows
    /\ current_balance' = RAdd(current_balance, R(1000, 1))
    /\ SetDb(log_transaction(Db, "DEPOSIT", R(1000, 1), "USD", "Test Deposit",
                             One, Zero))
    /\ last' = [op |-> "deposit"]
    /\ UNCHANGED <<phase, has_models, market, portfolio, job>>

\* POST /api/reset
reset_system ==
    /\ phase = "running"
    /\ LET db1 == reset_db(Db)
       IN  \E st \in reconstruct_portfolio_state(db1.txs) :
            /\ current_balance' = st.balance
            /\ portfolio' = st.portfolio
            /\ SetDb(log_portfolio_value(db1, st.balance))
    /\ last' = [op |-> "reset", ntx |-> Len(txs), nhist |-> Len(history)]
    /\ UNCHANGED <<phase, has_models, market, job>>

Next ==
    \/ Setup
    \/ Restart
    \/ \E raw \in RawDecisions, f \in Fluctuations : InvestmentJob(raw, f)
    \/ deposit_funds
    \/ reset_system

Spec == Init /\ [][Next]_vars


\* The process from a fresh start with the decision cycles alone, one after
\* another.
NextCycles ==
    \/ Setup
    \/ \E raw \in RawDecisions, f \in Fluctuations : InvestmentJob(raw, f)

SpecCycles == Init /\ [][NextCycles]_vars

\* The process with startups, decision cycles and deposits, one after
\* another, and no reset.
NextSequential ==
    \/ Setup
    \/ Restart
    \/ \E raw \in RawDecisions, f \in Fluctuations : InvestmentJob(raw, f)
    \/ deposit_funds

SpecSequential == Init /\ [][NextSequential]_vars

----------------------------------------------------------------------------
(* The store becomes unreachable.  log_transaction and log_portfolio_value *)
(* open the database and insert with no try/except (db.py:50-64), and      *)
(* investment_job calls them with none either: sqlite3.OperationalError    *)
(* leaves investment_job at the first of these calls the cycle reaches.    *)
(* phase "nostore" is the process after such a cycle; the runs explored    *)
(* end there.                                                              *)

\* investment_job() on the oracle's raw answer when the database cannot be
\* opened: the BUY and SELL branches have changed cash and positions before
\* their log_transaction raises; the other branches raise at their
\* log_transaction, the rejections at log_portfolio_value.
InvestmentJobStoreDown(raw) ==
    /\ phase = "running"
    /\ LET decision == get_market_analysis(has_models, raw)
           r == Execute(current_balance, portfolio, decision)
       IN  /\ current_balance' = r.balance
           /\ portfolio' = r.portfolio
           /\ last' = [op |-> "cycle_nostore", raw |-> raw, decision |-> decision,
                       outcome |-> r.outcome, amount |-> r.amount,
                       price |-> r.price,
                       balance |-> current_balance, portfolio |-> portfolio,
                       ntx |-> Len(txs), nhist |-> Len(history),
                       raised |-> TRUE, valued |-> FALSE]
    /\ phase' = "nostore"
    /\ UNCHANGED <<has_models, market, txs, next_id, history, job>>

NextStore ==
    \/ Setup
    \/ \E raw \in RawDecisions, f \in Fluctuations : InvestmentJob(raw, f)
    \/ \E raw \in RawDecisions : InvestmentJobStoreDown(raw)

SpecStore == Init /\ [][NextStore]_vars

----------------------------------------------------------------------------
(* Threads.  run_scheduler() runs investment_job inside its own thread     *)
(* (schedule.run_pending calls the job synchronously); POST /api/run       *)
(* starts a new thread per request.  No lock is taken anywhere, so the     *)
(* threads interleave wherever the interpreter may switch; the steps below *)
(* are the statements of investment_job that read or write shared state.   *)

Running == phase = "running"

\* Rows the tables hold together in the interleaved runs explored.
MaxRowsThreaded == 7

Active == {t \in Threads : job[t].pc \notin {"idle", "dead"}}

\* A thread whose function raised: the scheduler thread ends for good, a
\* request thread just ends.
Raised(t) == IF t = "timer" THEN [pc |-> "dead"] ELSE Idle

\* The job started in a thread of its own whenever it is due, whether or
\* not the last run has returned.
JobEnter_NoWait(t) ==
    /\ Running
    /\ job[t].pc # "dead"
    /\ Len(txs) + Len(history) + 2 * (Cardinality(Active) + 1) <= MaxRowsThreaded
    /\ job' = [job EXCEPT ![t] = [pc |-> "read"]]
    /\ UNCHANGED <<phase, has_models, market, current_balance, portfolio, txs,
                   next_id, history, last>>

\* schedule.run_pending() finds the job due (t = "timer"), or POST /api/run
\* starts a thread (t a request thread): investment_job is entered.
JobEnter(t) ==
    /\ Running
    /\ job[t].pc = "idle"
    /\ Len(txs) + Len(history) + 2 * (Cardinality(Active) + 1) <= MaxRowsThreaded
    /\ job' = [job EXCEPT ![t] = [pc |-> "read"]]
    /\ UNCHANGED <<phase, has_models, market, current_balance, portfolio, txs,
                   next_id, history, last>>

\* Lines 77-78: total_portfolio_value.
JobRead(t) ==
    /\ job[t].pc = "read"
    /\ job' = [job EXCEPT ![t] =
                [pc |-> "decide",
                 total |-> RAdd(current_balance, HoldingsValue(portfolio))]]
    /\ UNCHANGED <<phase, has_models, market, current_balance, portfolio, txs,
                   next_id, history, last>>

\* Lines 80-89: the oracle's answer and the locals read from it.
JobDecide(t, raw) ==
    /\ job[t].pc = "decide"
    /\ LET decision == get_market_analysis(has_models, raw)
           action == decision.action
       IN  job' = [job EXCEPT ![t] =
                [pc |-> CASE action = "BUY" -> "guard"
                          [] action = "SELL" -> "sell_check"
                          [] action = "HOLD" -> "hold"
                          [] action = "WATCH" -> "watch"
                          [] OTHER -> "value",
                 total |-> job[t].total,
                 asset |-> decision.asset,
                 amount |-> FloatOr(decision.amount, Zero),
                 price |-> FloatOr(decision.price, One),
                 reasoning |-> decision.reasoning,
                 gain |-> Zero]]
    /\ UNCHANGED <<phase, has_models, market, current_balance, portfolio, txs,
                   next_id, history, last>>

\* Lines 91-108: the diversification guardrail, on the total read earlier
\* and the portfolio as it is now.
JobGuard(t) ==
    /\ job[t].pc = "guard"
    /\ LET j == job[t]
           dv == Diversify(portfolio, j.total, j.asset, j.amount)
       IN  IF dv.block
           THEN /\ SetDb(log_transaction(Db, "WATCH", Zero, j.asset,
                            "Diversification limit reached (Max 40%)", j.price, Zero))
                /\ job' = [job EXCEPT ![t] = Idle]
           ELSE /\ job' = [job EXCEPT ![t].pc = "funds", ![t].amount = dv.amount]
                /\ UNCHANGED <<txs, next_id, history>>
    /\ UNCHANGED <<phase, has_models, market, current_balance, portfolio, last>>

\* The funds check leading straight to the ledger append of line 127.
JobFunds_LogFirst(t) ==
    /\ job[t].pc = "funds"
    /\ LET j == job[t]
       IN  job' = [job EXCEPT ![t].pc =
                    IF FundsOk(current_balance, j.amount)
                    THEN "buy_log" ELSE "value"]
    /\ UNCHANGED <<phase, has_models, market, current_balance, portfolio, txs,
                   next_id, history, last>>

\* Line 110: the funds check (else line 130).
JobFunds(t) ==
    /\ job[t].pc = "funds"
    /\ LET j == job[t]
       IN  job' = [job EXCEPT ![t].pc =
                    IF FundsOk(current_balance, j.amount)
                    THEN "debit" ELSE "value"]
    /\ UNCHANGED <<phase, has_models, market, current_balance, portfolio, txs,
                   next_id, history, last>>

\* Line 111.
JobDebit(t) ==
    /\ job[t].pc = "debit"
    /\ current_balance' = RSub(current_balance, job[t].amount)
    /\ job' = [job EXCEPT ![t].pc = "buy_pos"]
    /\ UNCHANGED <<phase, has_models, market, portfolio, txs, next_id, history,
                   last>>

\* Lines 112-125: the position update.
JobBuyPos(t) ==
    /\ job[t].pc = "buy_pos"
    /\ LET j == job[t]
       IN  portfolio' = BuyPosition(portfolio, j.asset, j.amount, j.price)
    /\ job' = [job EXCEPT ![t].pc = "buy_log"]
    /\ UNCHANGED <<phase, has_models, market, current_balance, txs, next_id,
                   history, last>>

\* Line 127.
JobBuyLog(t) ==
    /\ job[t].pc = "buy_log"
    /\ LET j == job[t]
       IN  SetDb(log_transaction(Db, "BUY", j.amount, j.asset, j.reasoning,
                                 j.price, Zero))
    /\ job' = [job EXCEPT ![t].pc = "value"]
    /\ UNCHANGED <<phase, has_models, market, current_balance, portfolio, last>>

\* Lines 133-146: the shares check and the gain (else line 158).
JobSellCheck(t) ==
    /\ job[t].pc = "sell_check"
    /\ LET j == job[t]
       IN  IF SharesOk(portfolio, j.asset, j.amount, j.price)
           THEN job' = [job EXCEPT
                            ![t].pc = "credit",
                            ![t].gain = GainPct(j.price, portfolio[j.asset].avg_price)]
           ELSE job' = [job EXCEPT ![t].pc = "value"]
    /\ UNCHANGED <<phase, has_models, market, current_balance, portfolio, txs,
                   next_id, history, last>>

\* Line 148.
JobCredit(t) ==
    /\ job[t].pc = "credit"
    /\ current_balance' = RAdd(current_balance, job[t].amount)
    /\ job' = [job EXCEPT ![t].pc = "sell_pos"]
    /\ UNCHANGED <<phase, has_models, market, portfolio, txs, next_id, history,
                   last>>

\* Lines 149-153: the position update and its cleanup; portfolio[asset]
\* raises KeyError when another thread has deleted the position meanwhile.
JobSellPos(t) ==
    /\ job[t].pc = "sell_pos"
    /\ LET j == job[t]
       IN  IF j.asset \in DOMAIN portfolio
           THEN /\ portfolio' = SellPosition(portfolio, j.asset, j.amount, j.price)
                /\ job' = [job EXCEPT ![t].pc = "sell_log"]
           ELSE /\ job' = [job EXCEPT ![t] = Raised(t)]
                /\ UNCHANGED portfolio
    /\ UNCHANGED <<phase, has_models, market, current_balance, txs, next_id,
                   history, last>>

\* Line 155.
JobSellLog(t) ==
    /\ job[t].pc = "sell_log"
    /\ LET j == job[t]
       IN  SetDb(log_transaction(Db, "SELL", j.amount, j.asset, j.reasoning,
                                 j.price, j.gain))
    /\ job' = [job EXCEPT ![t].pc = "value"]
    /\ UNCHANGED <<phase, has_models, market, current_balance, portfolio, last>>

\* Lines 160-170: the HOLD and WATCH branches.
JobHold(t) ==
    /\ job[t].pc \in {"hold", "watch"}
    /\ LET j == job[t]
           category == IF j.pc = "hold" /\ j.asset \in DOMAIN portfolio
                          /\ RGt(portfolio[j.asset].shares, Zero)
                       THEN "HOLD" ELSE "WATCH"
       IN  SetDb(log_transaction(Db, category, Zero, j.asset, j.reasoning,
                                 j.price, Zero))
    /\ job' = [job EXCEPT ![t].pc = "value"]
    /\ UNCHANGED <<phase, has_models, market, current_balance, portfolio, last>>

\* Lines 177-190: the valuation, and the return.
JobValue(t, fluctuation) ==
    /\ job[t].pc = "value"
    /\ SetDb(log_portfolio_value(Db, LogValue(current_balance, portfolio, fluctuation)))
    /\ job' = [job EXCEPT ![t] = Idle]
    /\ UNCHANGED <<phase, has_models, market, current_balance, portfolio, last>>

NextThreaded ==
    \/ Setup
    \/ \E t \in Threads : JobEnter(t)
    \/ \E t \in Threads : JobRead(t)
    \/ \E t \in Threads, raw \in RawDecisions : JobDecide(t, raw)
    \/ \E t \in Threads : JobGuard(t)
    \/ \E t \in Threads : JobFunds(t)
    \/ \E t \in Threads : JobDebit(t)
    \/ \E t \in Threads : JobBuyPos(t)
    \/ \E t \in Threads : JobBuyLog(t)
    \/ \E t \in Threads : JobSellCheck(t)
    \/ \E t \in Threads : JobCredit(t)
    \/ \E t \in Threads : JobSellPos(t)
    \/ \E t \in Threads : JobSellLog(t)
    \/ \E t \in Threads : JobHold(t)
    \/ \E t \in Threads, f \in Fluctuations : JobValue(t, f)

SpecThreaded == Init /\ [][NextThreaded]_vars

----------------------------------------------------------------------------
(* GET /api/status while the scheduled job runs.  FastAPI runs get_status  *)
(* in a worker thread; it takes no lock and copies nothing, so it reads    *)
(* the globals in two places: the sum over portfolio.values() of line 210, *)
(* then current_balance at lines 211 and 222.  The runs explored end with  *)
(* the answer of one status request.                                       *)

\* One statement of investment_job in thread t.
JobStep(t) ==
    \/ JobEnter(t)
    \/ JobRead(t)
    \/ \E raw \in RawDecisions : JobDecide(t, raw)
    \/ JobGuard(t)
    \/ JobFunds(t)
    \/ JobDebit(t)
    \/ JobBuyPos(t)
    \/ JobBuyLog(t)
    \/ JobSellCheck(t)
    \/ JobCredit(t)
    \/ JobSellPos(t)
    \/ JobSellLog(t)
    \/ JobHold(t)
    \/ \E f \in Fluctuations : JobValue(t, f)

\* Line 210: total_holdings.
get_status_sum ==
    /\ Running
    /\ last.op \notin {"status_sum", "status"}
    /\ last' = [op |-> "status_sum", holdings |-> HoldingsValue(portfolio)]
    /\ UNCHANGED <<phase, has_models, market, current_balance, portfolio, txs,
                   next_id, history, job>>

\* Lines 211-228: total_value, total_invested and the dict returned.
get_status ==
    /\ last.op = "status_sum"
    /\ last' = [op |-> "status",
                balance |-> current_balance,
                holdings |-> last.holdings,
                total_value |-> RAdd(current_balance, last.holdings),
                total_invested |-> get_total_deposited(Db)]
    /\ UNCHANGED <<phase, has_models, market, current_balance, portfolio, txs,
                   next_id, history, job>>

NextStatus ==
    \/ Setup
    \/ last.op # "status" /\ JobStep("timer")
    \/ get_status_sum
    \/ get_status

SpecStatus == Init /\ [][NextStatus]_vars

----------------------------------------------------------------------------
(* The scheduler's cycle and the cycle of one POST /api/run, statement by  *)
(* statement, over a longer run than the three threads above are given.    *)

\* Rows the tables hold together in these runs.
MaxRowsPair == 9

PairThreads == {"timer", "manual1"}

\* investment_job is entered in the scheduler thread or in a request thread.
PairEnter(t) ==
    /\ Running
    /\ job[t].pc = "idle"
    /\ Len(txs) + Len(history)
            + 2 * (Cardinality(Active \cap PairThreads) + 1) <= MaxRowsPair
    /\ job' = [job EXCEPT ![t] = [pc |-> "read"]]
    /\ UNCHANGED <<phase, has_models, market, current_balance, portfolio, txs,
                   next_id, history, last>>

NextPair ==
    \/ Setup
    \/ \E t \in PairThreads :
        \/ PairEnter(t)
        \/ JobRead(t)
        \/ \E raw \in RawDecisions : JobDecide(t, raw)
        \/ JobGuard(t)
        \/ JobFunds(t)
        \/ JobDebit(t)
        \/ JobBuyPos(t)
        \/ JobBuyLog(t)
        \/ JobSellCheck(t)
        \/ JobCredit(t)
        \/ JobSellPos(t)
        \/ JobSellLog(t)
        \/ JobHold(t)
        \/ \E f \in Fluctuations : JobValue(t, f)

SpecPair == Init /\ [][NextPair]_vars

----------------------------------------------------------------------------
(* POST /api/deposit and POST /api/reset while cycles run.  FastAPI runs   *)
(* each handler in a worker thread (here "manual2") while the scheduled    *)
(* job runs in "timer".  No handler takes a lock, so each is a sequence of *)
(* steps between which the other thread runs: a call into db.py opens the  *)
(* database and releases the interpreter.                                  *)

Handler == "manual2"

\* Most deposit and reset requests served in the runs explored.
MaxRequests == 1

\* Requests served so far.
Served == IF "served" \in DOMAIN last THEN last.served ELSE 0

\* deposit_funds, lines 266-267: current_balance += amount.
DepositAdd ==
    /\ Running
    /\ job[Handler].pc = "idle"
    /\ Served < MaxRequests
    /\ Len(txs) + Len(history) + 2 * (Cardinality(Active) + 1) <= MaxRowsThreaded
    /\ current_balance' = RAdd(current_balance, R(1000, 1))
    /\ job' = [job EXCEPT ![Handler] = [pc |-> "deposit_log"]]
    /\ UNCHANGED <<phase, has_models, market, portfolio, txs, next_id, history,
                   last>>

\* deposit_funds, line 268: log_transaction, and the return.
DepositLog ==
    /\ job[Handler].pc = "deposit_log"
    /\ SetDb(log_transaction(Db, "DEPOSIT", R(1000, 1), "USD", "Test Deposit",
                             One, Zero))
    /\ job' = [job EXCEPT ![Handler] = Idle]
    /\ last' = [op |-> "deposit", served |-> Served + 1]
    /\ UNCHANGED <<phase, has_models, market, current_balance, portfolio>>

\* reset_system, line 251: reset_db().
ResetDrop ==
    /\ Running
    /\ job[Handler].pc = "idle"
    /\ Served < MaxRequests
    /\ SetDb(reset_db(Db))
    /\ job' = [job EXCEPT ![Handler] = [pc |-> "reset_load"]]
    /\ UNCHANGED <<phase, has_models, market, current_balance, portfolio, last>>

\* reset_system, lines 254-256: the replay and the two assignments.
ResetLoad ==
    /\ job[Handler].pc = "reset_load"
    /\ \E st \in reconstruct_portfolio_state(txs) :
            /\ current_balance' = st.balance
            /\ portfolio' = st.portfolio
    /\ job' = [job EXCEPT ![Handler] = [pc |-> "reset_log"]]
    /\ UNCHANGED <<phase, has_models, market, txs, next_id, history, last>>

\* reset_system, line 258: log_portfolio_value(current_balance), and the
\* return.
ResetLog ==
    /\ job[Handler].pc = "reset_log"
    /\ SetDb(log_portfolio_value(Db, current_balance))
    /\ job' = [job EXCEPT ![Handler] = Idle]
    /\ last' = [op |-> "reset", served |-> Served + 1]
    /\ UNCHANGED <<phase, has_models, market, current_balance, portfolio>>

NextRace ==
    \/ Setup
    \/ JobStep("timer")
    \/ DepositAdd
    \/ DepositLog
    \/ ResetDrop
    \/ ResetLoad
    \/ ResetLog

SpecRace == Init /\ [][NextRace]_vars

----------------------------------------------------------------------------
(* The reducer on any ledger: the process starts on a database whose       *)
(* transactions table holds rows written by earlier runs or versions       *)
(* (NULL prices, rows of any category, sales of assets never bought, equal *)
(* timestamps), and setup() replays it.                                    *)

\* Most rows seeded into the transactions table.
MaxSeed == 3

SeedRows == {
    [category |-> "DEPOSIT", amount |-> R(100, 1), asset |-> "USD",      price |-> NULL],
    [category |-> "BUY",     amount |-> R(40, 1),  asset |-> "NVDA",     price |-> R(2, 1)],
    [category |-> "BUY",     amount |-> R(5, 1),   asset |-> "NVDA",     price |-> R(-2, 1)],
    [category |-> "SELL",    amount |-> R(30, 1),  asset |-> "NVDA",     price |-> R(3, 1)],
    [category |-> "SELL",    amount |-> R(20, 1),  asset |-> "POLY:foo", price |-> NULL],
    [category |-> "HOLD",    amount |-> NULL,      asset |-> "NVDA",     price |-> Zero] }

InitLedger ==
    /\ phase = "boot"
    /\ has_models = FALSE
    /\ market = "simulated"
    /\ current_balance = R(100, 1)
    /\ portfolio = EmptyPortfolio
    /\ txs = <<>>
    /\ next_id = 1
    /\ history = <<[ts |-> 1, total_value |-> R(100, 1)]>>
    /\ last = NoOp
    /\ job = [t \in Threads |-> Idle]

\* An earlier run wrote a row, at the time of the row before it (same) or
\* later.
SeedRow(row, same) ==
    /\ phase = "boot"
    /\ Len(txs) < MaxSeed
    /\ txs' = Append(txs, [id |-> next_id,
                           ts |-> IF same /\ txs # <<>> THEN txs[Len(txs)].ts
                                  ELSE Clock(Db),
                           category |-> row.category, amount |-> row.amount,
                           asset |-> row.asset, detail |-> "seed",
                           price |-> row.price, gain |-> Zero])
    /\ next_id' = next_id + 1
    /\ UNCHANGED <<phase, has_models, market, current_balance, portfolio,
                   history, last, job>>

NextLedger ==
    \/ \E row \in SeedRows, same \in BOOLEAN : SeedRow(row, same)
    \/ Setup

SpecLedger == InitLedger /\ [][NextLedger]_vars

----------------------------------------------------------------------------
(* Claims.                                                                 *)

Cycle == Running /\ last.op = "cycle"

\* C1: after any sequence of operations run one at a time, the live balance
\* and positions equal the replay of the whole ledger through the reducer.
C1_LiveEqualsReplay ==
    Running =>
        \A st \in reconstruct_portfolio_state(txs) :
            st.balance = current_balance /\ st.portfolio = portfolio

\* The row the last cycle appended to the ledger, if it appended one.
Appended == Cycle /\ Len(txs) = last.ntx + 1
NewRow == txs[Len(txs)]

\* The last cycle left balance, positions and ledger as they were.
Untouched ==
    /\ current_balance = last.balance
    /\ portfolio = last.portfolio
    /\ Len(txs) = last.ntx

\* C2: no two threads are inside the read-decide-write sequence of
\* investment_job (from the read of the total to the ledger append) at the
\* same time.
InReadDecideWrite(t) == job[t].pc \notin {"idle", "dead", "read", "value"}

C2_CyclesExclusive ==
    \A t1, t2 \in Threads :
        t1 # t2 => ~(InReadDecideWrite(t1) /\ InReadDecideWrite(t2))

\* C3 as stated: after a reset the ledger holds exactly one transaction, a
\* DEPOSIT of 100.0 on USD, and the history holds exactly one point, 100.0.
GenesisLedger ==
    /\ Len(txs) = 1
    /\ txs[1].category = "DEPOSIT"
    /\ txs[1].amount = R(100, 1)
    /\ txs[1].asset = "USD"

C3_ResetLeavesOnePoint ==
    (Running /\ last.op = "reset") =>
        /\ GenesisLedger
        /\ Len(history) = 1
        /\ history[1].total_value = R(100, 1)

\* C3 amended: after a reset the ledger holds exactly the genesis DEPOSIT
\* and the history holds exactly two points, both 100.0: the one reset_db
\* seeds and the one reset_system logs.
C3_ResetLeavesGenesis ==
    (Running /\ last.op = "reset") =>
        /\ GenesisLedger
        /\ Len(history) = 2
        /\ \A i \in 1..2 : history[i].total_value = R(100, 1)
        /\ current_balance = R(100, 1)
        /\ portfolio = EmptyPortfolio

C3_Witness == Running /\ last.op = "reset" /\ last.ntx > 1 /\ last.nhist > 2

\* C4: no position with shares < 1e-6 exists, in the live map or in the
\* reducer's output.
NoDust(port) == \A a \in DOMAIN port : ~RLt(port[a].shares, Epsilon)

C4_NoDustPositions ==
    Running =>
        /\ NoDust(portfolio)
        /\ \A st \in reconstruct_portfolio_state(txs) : NoDust(st.portfolio)

\* C5: every live position has shares >= 0 and, when shares > 0,
\* avg_price > 0.
C5_PositionsWellFormed ==
    Running =>
        \A a \in DOMAIN portfolio :
            /\ RGe(portfolio[a].shares, Zero)
            /\ RGt(portfolio[a].shares, Zero) => RGt(portfolio[a].avg_price, Zero)

\* C6: the reducer's cash balance is sum(DEPOSIT) - sum(BUY) + sum(SELL)
\* over the whole ledger, whatever the prices, assets and HOLD/WATCH rows;
\* setup() loads exactly that balance.
LedgerCash(rows) ==
    RAdd(RSub(SumCategory(rows, "DEPOSIT"), SumCategory(rows, "BUY")),
         SumCategory(rows, "SELL"))

C6_CashIsLedgerSum ==
    /\ \A st \in reconstruct_portfolio_state(txs) : st.balance = LedgerCash(txs)
    /\ (Running /\ last.op = "setup") => current_balance = LedgerCash(txs)

HasRow(cats) == \E i \in DOMAIN txs : txs[i].category \in cats

C6_Witness ==
    /\ Running /\ last.op = "setup"
    /\ HasRow({"BUY"}) /\ HasRow({"SELL"}) /\ HasRow({"HOLD", "WATCH"})
    /\ \E i \in DOMAIN txs : txs[i].price = NULL \/ RLe(txs[i].price, Zero)

\* What the last cycle's BUY was checked against: the asset's cost value,
\* 40% of the total value, and the room left, all before the trade.
PreTotal == RAdd(last.balance, HoldingsValue(last.portfolio))
CostValue(port, a) ==
    IF a \in DOMAIN port THEN RMul(port[a].shares, port[a].avg_price) ELSE Zero
PreAssetValue == CostValue(last.portfolio, last.decision.asset)
PreMax == RMul(R(2, 5), PreTotal)
PreAllowed == RSub(PreMax, PreAssetValue)
Proposed == FloatOr(last.decision.amount, Zero)
OverCap == RGt(RAdd(PreAssetValue, Proposed), PreMax)
NoRoom == RLt(PreAllowed, R(2, 1))
BuyCycle == Cycle /\ last.decision.action = "BUY"
DivDetail == "Diversification limit reached (Max 40%)"

\* C7: a BUY over the 40% cap is turned into a WATCH row of amount 0 with
\* cash and positions unchanged when less than $2 of room is left, else it
\* is capped to exactly the room left; no executed BUY leaves the asset's
\* cost value above 40% of the pre-trade total value.
C7_DiversificationCap ==
    /\ (BuyCycle /\ OverCap) =>
        IF NoRoom
        THEN /\ Appended
             /\ NewRow.category = "WATCH" /\ NewRow.amount = Zero
             /\ NewRow.asset = last.decision.asset
             /\ current_balance = last.balance /\ portfolio = last.portfolio
        ELSE \/ Untouched
             \/ /\ Appended
                /\ NewRow.category = "BUY" /\ NewRow.amount = PreAllowed
                /\ current_balance = RSub(last.balance, PreAllowed)
    /\ (Appended /\ NewRow.category = "BUY") =>
        RLe(CostValue(portfolio, NewRow.asset), PreMax)

\* A block (no room left) on an asset whose position an earlier capped BUY
\* of this run filled up to the cap.
C7_Witness ==
    /\ BuyCycle /\ OverCap /\ NoRoom /\ Appended
    /\ \E i \in 1..last.ntx :
        /\ txs[i].category = "BUY" /\ txs[i].asset = NewRow.asset
        /\ txs[i].amount = R(40, 1)
    /\ last.ntx = 2

\* C8: whatever the source of the proposal, a BUY of a prediction-market
\* asset (POLY: prefix, or price < 0.99) at a price > 0.75 is rewritten to
\* HOLD with amount 0, and no BUY row for such an asset at such a price is
\* ever in the ledger.
OverCeiling(asset, price) ==
    /\ price # NULL
    /\ StartsWithPoly(asset) \/ RLt(price, R(99, 100))
    /\ RGt(price, R(3, 4))

C8_PriceCeiling ==
    /\ (Cycle /\ last.raw.action = "BUY"
              /\ OverCeiling(last.raw.asset, last.raw.price)) =>
            /\ last.decision.action = "HOLD"
            /\ FloatOr(last.decision.amount, Zero) = Zero
            /\ current_balance = last.balance
    /\ \A i \in DOMAIN txs :
        txs[i].category = "BUY" => ~OverCeiling(txs[i].asset, txs[i].price)

\* The proposals C9 is about: a BUY that is over the price ceiling and,
\* on the state before the cycle, over the cap with less than $2 of room.
BothRules ==
    /\ Cycle /\ last.raw.action = "BUY"
    /\ OverCeiling(last.raw.asset, last.raw.price)
    /\ LET cur == CostValue(last.portfolio, last.raw.asset)
           amt == FloatOr(last.raw.amount, Zero)
       IN  /\ RGt(RAdd(cur, amt), PreMax)
           /\ RLt(RSub(PreMax, cur), R(2, 1))

\* C9 as stated: such a proposal ends as the diversification rewrite, a
\* WATCH row of amount 0, not as the price-ceiling HOLD.
C9_DiversificationFirst ==
    BothRules =>
        /\ Appended
        /\ NewRow.category = "WATCH" /\ NewRow.amount = Zero
        /\ NewRow.detail = DivDetail

\* C9 amended: the price ceiling is applied first, inside the model chain:
\* from a model such a proposal ends as the price-ceiling rewrite (a HOLD
\* row when the asset is held with shares > 0, else a WATCH row, amount 0,
\* with the BLOCKED reasoning, cash and positions unchanged, the valuation
\* logged); from the simulated fallback, which has no price ceiling, it
\* ends as the diversification WATCH with no valuation point.
C9_CeilingFirst ==
    BothRules =>
        /\ Appended
        /\ NewRow.amount = Zero
        /\ current_balance = last.balance /\ portfolio = last.portfolio
        /\ IF has_models
           THEN /\ NewRow.detail = "BLOCKED"
                /\ NewRow.category =
                     IF last.raw.asset \in DOMAIN last.portfolio
                        /\ RGt(last.portfolio[last.raw.asset].shares, Zero)
                     THEN "HOLD" ELSE "WATCH"
                /\ Len(history) = last.nhist + 1
           ELSE /\ NewRow.detail = DivDetail
                /\ NewRow.category = "WATCH"
                /\ Len(history) = last.nhist

C9_Witness == BothRules /\ has_models /\ NewRow.category = "HOLD"

\* C10: a BUY that the diversification rule has not blocked changes the
\* state and appends a BUY row (of the amount left after capping) only if
\* the balance covers that amount and the amount is > 0; otherwise cash,
\* positions and ledger stay as they were.
FinalAmount == IF OverCap THEN PreAllowed ELSE Proposed

C10_FundsSufficiency ==
    (BuyCycle /\ ~(OverCap /\ NoRoom)) =>
        IF RGe(last.balance, FinalAmount) /\ RGt(FinalAmount, Zero)
        THEN /\ Appended
             /\ NewRow.category = "BUY" /\ NewRow.amount = FinalAmount
             /\ current_balance = RSub(last.balance, FinalAmount)
        ELSE Untouched

\* A rejection for lack of cash: a positive amount above the balance.
C10_Witness ==
    /\ BuyCycle /\ ~(OverCap /\ NoRoom)
    /\ RGt(FinalAmount, Zero) /\ RLt(last.balance, FinalAmount)
    /\ Untouched /\ Len(history) = last.nhist + 1

\* C11: a SELL changes the state and appends a SELL row only if the asset
\* is held with shares >= amount / price; otherwise, the asset not being
\* held at all included, cash, positions and ledger stay as they were.
SellCycle == Cycle /\ last.decision.action = "SELL"
SellAsset == last.decision.asset
SharesAsked == RDiv(last.amount, last.price)
SharesHeld ==
    IF SellAsset \in DOMAIN last.portfolio
    THEN last.portfolio[SellAsset].shares ELSE Zero

C11_SharesSufficiency ==
    SellCycle =>
        IF SellAsset \in DOMAIN last.portfolio /\ RGe(SharesHeld, SharesAsked)
        THEN /\ Appended
             /\ NewRow.category = "SELL" /\ NewRow.amount = last.amount
             /\ NewRow.asset = SellAsset
             /\ current_balance = RAdd(last.balance, last.amount)
        ELSE Untouched

\* A SELL of more shares than the position holds, left without effect.
C11_Witness ==
    /\ SellCycle /\ SellAsset \in DOMAIN last.portfolio
    /\ RGt(SharesHeld, Zero) /\ RLt(SharesHeld, SharesAsked)
    /\ Untouched /\ Len(history) = last.nhist + 1

\* C12: every cycle, whatever its outcome (executed BUY or SELL, HOLD,
\* WATCH, diversification block, rejection), appends exactly one point to
\* the valuation history.  (The points a startup and a reset leave are
\* counted under C3.)
C12_OneValuationPerCycle == Cycle => Len(history) = last.nhist + 1

\* C13: in a cycle running alone, each executed branch first applies the
\* action to the live state and then appends exactly one row: the BUY
\* branch debits the cash, then updates the position, then appends a BUY
\* row of the amount left after capping; the SELL branch credits, updates
\* the position, then appends a SELL row; HOLD on an asset with shares > 0
\* appends a HOLD row; HOLD without a position and WATCH append a WATCH
\* row.  A step that changes cash or positions appends nothing, and a step
\* that appends changes neither.
LastRow(rows) == rows[Len(rows)]

AppendsOne == Len(txs') = Len(txs) + 1 /\ SubSeq(txs', 1, Len(txs)) = txs

HeldNow(asset) ==
    asset \in DOMAIN portfolio /\ RGt(portfolio[asset].shares, Zero)

C13_Step(t) ==
    LET j == job[t]
        pc == job[t].pc
        pc2 == job'[t].pc
        row == LastRow(txs')
    IN  /\ pc2 = "buy_pos" =>
                /\ pc = "debit" /\ txs' = txs
                /\ current_balance' = RSub(current_balance, j.amount)
        /\ pc2 = "buy_log" =>
                /\ pc = "buy_pos" /\ txs' = txs
                /\ j.asset \in DOMAIN portfolio'
        /\ pc2 = "sell_pos" =>
                /\ pc = "credit" /\ txs' = txs
                /\ current_balance' = RAdd(current_balance, j.amount)
        /\ pc2 = "sell_log" => pc = "sell_pos" /\ txs' = txs
        /\ pc \in {"buy_log", "sell_log", "hold", "watch"} =>
                AppendsOne /\ pc2 = "value"
        /\ txs' # txs =>
                /\ AppendsOne
                /\ current_balance' = current_balance /\ portfolio' = portfolio
                /\ row.asset = j.asset
                /\ CASE pc = "buy_log" ->
                            row.category = "BUY" /\ row.amount = j.amount
                      [] pc = "sell_log" ->
                            row.category = "SELL" /\ row.amount = j.amount
                      [] pc = "hold" ->
                            /\ row.amount = Zero
                            /\ row.category =
                                 IF HeldNow(j.asset) THEN "HOLD" ELSE "WATCH"
                      [] pc = "watch" ->
                            row.category = "WATCH" /\ row.amount = Zero
                      [] pc = "guard" ->
                            row.category = "WATCH" /\ row.amount = Zero
                      [] OTHER -> FALSE

C13_MutateThenAppend ==
    [][\A t \in Threads :
            (Active = {t} /\ job'[t] # job[t]) => C13_Step(t)]_vars

\* A cycle running alone has credited a sale and updated the position, and
\* its SELL row is not in the ledger yet.
C13_Witness ==
    \E t \in Threads :
        /\ Active = {t} /\ job[t].pc = "sell_log"
        /\ current_balance = RAdd(LedgerCash(txs), job[t].amount)

\* C14: a cycle that finds the store unreachable when it appends does not
\* raise to its caller but reports a degraded outcome, cash and positions
\* still advance by the trade, and the cycle goes on to its valuation.
StoreDownCycle == phase = "nostore" /\ last.op = "cycle_nostore"

C14_StoreFailureDegrades ==
    StoreDownCycle =>
        /\ ~last.raised
        /\ last.valued
        /\ last.outcome = "BUY" =>
                current_balance = RSub(last.balance, last.amount)
        /\ last.outcome = "SELL" =>
                current_balance = RAdd(last.balance, last.amount)

\* What does hold of such a cycle: cash and positions have advanced by the
\* trade and the ledger has no row of it.
C14_MemoryAdvances ==
    StoreDownCycle =>
        /\ last.outcome = "BUY" =>
                current_balance = RSub(last.balance, last.amount)
        /\ last.outcome = "SELL" =>
                current_balance = RAdd(last.balance, last.amount)
        /\ Len(txs) = last.ntx /\ Len(history) = last.nhist

\* C15: when every model call raises or returns no valid JSON, the cycle
\* proceeds as a HOLD: cash and positions are unchanged, the one row it
\* appends is neither a BUY nor a SELL, and the cycle runs to its end (its
\* valuation point is appended).
OracleFailed == Cycle /\ has_models /\ last.raw = AllModelsFailed

C15_OracleFailureHolds ==
    OracleFailed =>
        /\ last.decision.action = "HOLD"
        /\ current_balance = last.balance /\ portfolio = last.portfolio
        /\ Appended /\ NewRow.category = "WATCH" /\ NewRow.amount = Zero
        /\ \A i \in (last.ntx + 1)..Len(txs) :
                txs[i].category \notin {"BUY", "SELL"}
        /\ Len(history) = last.nhist + 1

\* The oracle fails while a position is held.
C15_Witness ==
    /\ OracleFailed /\ last.portfolio # EmptyPortfolio
    /\ last.outcome = "WATCH"

\* C16: between resets the ledger is append-only: every step that is not a
\* reset keeps every row stored, with the same fields and in the same
\* order, and only adds rows behind them; ids are strictly increasing.
IdsIncreasing(rows) ==
    \A i, k \in DOMAIN rows : i < k => rows[i].id < rows[k].id

KeepsRows ==
    /\ Len(txs') >= Len(txs)
    /\ SubSeq(txs', 1, Len(txs)) = txs

C16_AppendOnly ==
    [][(last'.op # "reset" => KeepsRows) /\ IdsIncreasing(txs')]_vars

\* A ledger grown by a trade and by deposits, after a restart.
C16_Witness ==
    /\ Running /\ last.op = "restart"
    /\ Len(txs) >= 4 /\ HasRow({"BUY"})
    /\ \E i \in DOMAIN txs : i > 1 /\ txs[i].category = "DEPOSIT"

\* C17: replay reduces the rows in ascending timestamp order with ties
\* broken by ascending id, so rows of equal timestamp are reduced in the
\* order in which they were appended: whatever order the query returns,
\* the state replayed, and the state setup() loads, is the reduction of the
\* rows sorted by (timestamp, id).
ByStampThenId(rows) ==
    CHOOSE o \in FetchOrders(rows) :
        \A i, k \in DOMAIN o :
            (i < k /\ o[i].ts = o[k].ts) => o[i].id < o[k].id

C17_TiesInAppendOrder ==
    /\ \A st \in reconstruct_portfolio_state(txs) :
            st = Reduce(ByStampThenId(txs))
    /\ (Running /\ last.op = "setup") =>
            /\ current_balance = Reduce(ByStampThenId(txs)).balance
            /\ portfolio = Reduce(ByStampThenId(txs)).portfolio

\* C18: the replay is deterministic and idempotent: the ledger's contents
\* determine one balance and one positions map, a replay that follows a
\* replay with no append in between loads the identical balance and
\* positions, and a replay leaves the ledger as it is.
Replays == {"setup", "restart", "reset"}

MidOrDone(t) == job[t].pc \in {"buy_pos", "buy_log", "sell_pos", "sell_log"}

PendingRow(t) ==
    [category |-> IF job[t].pc \in {"buy_pos", "buy_log"} THEN "BUY" ELSE "SELL",
     amount |-> job[t].amount, asset |-> job[t].asset, price |-> job[t].price]

WholeTradeStates ==
    {Reduce(SubSeq(txs, 1, k)) : k \in 1..Len(txs)}
        \cup {ReduceRow(Reduce(txs), PendingRow(t)) :
                    t \in {u \in Threads : MidOrDone(u)}}

C19_StatusSnapshot ==
    (last.op = "status" /\ market # "badprice") =>
        \E st \in WholeTradeStates :
            /\ last.balance = st.balance
            /\ last.holdings = HoldingsValue(st.portfolio)
            /\ last.total_value = RAdd(st.balance, HoldingsValue(st.portfolio))

\* C20: scheduled cycles never overlap one another: run_scheduler calls
\* the job inside its own loop, so a scheduled cycle is entered only when
\* the scheduler thread is in no cycle, and once a scheduled cycle has
\* raised the thread runs no other.
C20_TimerCyclesSequential ==
    [][/\ (job'["timer"].pc = "read" /\ job'["timer"] # job["timer"]) =>
            job["timer"].pc = "idle"
       /\ job["timer"].pc = "dead" => job'["timer"].pc = "dead"]_vars

\* A scheduled cycle in flight after an earlier cycle has completed.
C20_Witness ==
    /\ job["timer"].pc \in {"buy_log", "sell_log", "hold"}
    /\ Len(history) >= 3 /\ Len(txs) >= 2

\* C21: under any interleaving of a reset or a deposit with cycles in
\* flight, once all of them have returned the live cash and positions are
\* the replay of the ledger as it then stands.  (Stated for runs without
\* the negative prices of C1.)
AllReturned == Running /\ \A t \in Threads : job[t].pc = "idle"

C21_QuiescentEqualsReplay ==
    (AllReturned /\ market # "badprice") =>
        \A st \in reconstruct_portfolio_state(txs) :
            st.balance = current_balance /\ st.portfolio = portfolio

\* C22: the reducer's BUY rule.  With px the row's price when it is > 0 and
\* 1.0 when it is absent, zero or negative, a BUY row takes its amount from
\* the cash, adds amount / px to the asset's shares (from 0 shares at
\* average 0 when the asset is not held), sets avg_price to
\* (oldShares * oldAvg + sharesBought * px) / newShares when newShares > 0,
\* else to px, and leaves the other positions as they are.
Prefix(k) == Reduce(SubSeq(txs, 1, k))

RowAmount(row) == IF row.amount = NULL THEN Zero ELSE row.amount

RowPx(row) ==
    IF row.price # NULL /\ RGt(row.price, Zero) THEN row.price ELSE One

SharesIn(port, a) == IF a \in DOMAIN port THEN port[a].shares ELSE Zero

AvgIn(port, a) == IF a \in DOMAIN port THEN port[a].avg_price ELSE Zero

OthersKept(pre, post, asset) ==
    /\ (DOMAIN pre) \ {asset} = (DOMAIN post) \ {asset}
    /\ \A a \in (DOMAIN pre) \ {asset} : post[a] = pre[a]

BuyRule(pre, post, row) ==
    LET px == RowPx(row)
        bought == RDiv(RowAmount(row), px)
        oldShares == SharesIn(pre.portfolio, row.asset)
        oldAvg == AvgIn(pre.portfolio, row.asset)
        newShares == RAdd(oldShares, bought)
    IN  /\ post.balance = RSub(pre.balance, RowAmount(row))
        /\ row.asset \in DOMAIN post.portfolio
        /\ post.portfolio[row.asset].shares = newShares
        /\ post.portfolio[row.asset].avg_price =
                IF RGt(newShares, Zero)
                THEN RDiv(RAdd(RMul(oldShares, oldAvg), RMul(bought, px)), newShares)
                ELSE px
        /\ OthersKept(pre.portfolio, post.portfolio, row.asset)

SellRule(pre, post, row) ==
    LET asset == row.asset
        sold == RDiv(RowAmount(row), RowPx(row))
        left == RMax(Zero, RSub(SharesIn(pre.portfolio, asset), sold))
    IN  /\ post.balance = RAdd(pre.balance, RowAmount(row))
        /\ IF asset \notin DOMAIN pre.portfolio
           THEN post.portfolio = pre.portfolio
           ELSE /\ OthersKept(pre.portfolio, post.portfolio, asset)
                /\ IF RLt(left, Epsilon)
                   THEN asset \notin DOMAIN post.portfolio
                   ELSE /\ asset \in DOMAIN post.portfolio
                        /\ post.portfolio[asset].shares = left
                        /\ post.portfolio[asset].avg_price =
                                pre.portfolio[asset].avg_price

C23_ReducerSellRule ==
    \A k \in DOMAIN txs :
        txs[k].category = "SELL" => SellRule(Prefix(k - 1), Prefix(k), txs[k])

\* A ledger with a SELL that leaves shares, at a price other than the
\* position's average, and a SELL of an asset that is not held.
C23_Witness ==
    /\ \E k \in DOMAIN txs :
        /\ txs[k].category = "SELL"
        /\ txs[k].asset \in DOMAIN Prefix(k).portfolio
        /\ Prefix(k).portfolio[txs[k].asset].avg_price # RowPx(txs[k])
    /\ \E k \in DOMAIN txs :
        /\ txs[k].category = "SELL"
        /\ txs[k].asset \notin DOMAIN Prefix(k - 1).portfolio

\* C24: HOLD and WATCH change nothing.  A HOLD or WATCH row leaves the
\* reducer's cash and positions as they are, and a cycle that ends in HOLD
\* or WATCH (the oracle's own, the price-ceiling rewrite, the
\* diversification block) leaves the live cash and positions as they are
\* and appends one HOLD or WATCH row of amount 0.
QuietCycle ==
    /\ Cycle
    /\ last.decision.action \in {"HOLD", "WATCH"} \/ last.outcome = "DIV_BLOCK"

C24_HoldWatchFrame ==
    /\ \A k \in DOMAIN txs :
            txs[k].category \in {"HOLD", "WATCH"} => Prefix(k) = Prefix(k - 1)
    /\ QuietCycle =>
            /\ current_balance = last.balance /\ portfolio = last.portfolio
            /\ Appended
            /\ NewRow.category \in {"HOLD", "WATCH"} /\ NewRow.amount = Zero

\* A HOLD proposed with an amount of 10 on a position that is held.
C24_Witness ==
    /\ QuietCycle /\ last.outcome = "HOLD"
    /\ last.decision.amount = R(10, 1)
    /\ last.portfolio # EmptyPortfolio /\ NewRow.category = "HOLD"

\* C25: the gain of an executed SELL's row is (price - avg_price) /
\* avg_price * 100 with the position's average price before the sale when
\* that average is above 0, else 0; every BUY, HOLD, WATCH and DEPOSIT row
\* carries a gain of 0.
SoldAvg == last.portfolio[last.decision.asset].avg_price

C25_GainField ==
    /\ (Cycle /\ last.outcome = "SELL") =>
            /\ Appended /\ NewRow.category = "SELL"
            /\ NewRow.gain =
                    IF RGt(SoldAvg, Zero)
                    THEN RMul(RDiv(RSub(NewRow.price, SoldAvg), SoldAvg), R(100, 1))
                    ELSE Zero
    /\ \A i \in DOMAIN txs :
            txs[i].category \in {"BUY", "HOLD", "WATCH", "DEPOSIT"}
                => txs[i].gain = Zero

\* 30 dollars sold at 3 out of a position bought at 2: a gain of 50.
C25_Witness ==
    /\ Cycle /\ last.outcome = "SELL"
    /\ SoldAvg = R(2, 1) /\ NewRow.price = R(3, 1) /\ NewRow.gain = R(50, 1)
    /\ \E i \in DOMAIN txs : txs[i].category = "DEPOSIT" /\ txs[i].amount = R(1000, 1)

\* C26: the valuation point a cycle appends lies between cash + 0.99 * H
\* and cash + 1.01 * H, H the sum of shares * avg_price over the positions
\* after the trade; with H = 0 the point is the cash exactly.
Valued == Cycle /\ Len(history) = last.nhist + 1
NewPoint == history[Len(history)].total_value
HoldingsNow == HoldingsValue(portfolio)

C26_ValuationBand ==
    Valued =>
        /\ RLe(RAdd(current_balance, RMul(R(99, 100), HoldingsNow)), NewPoint)
        /\ RLe(NewPoint, RAdd(current_balance, RMul(R(101, 100), HoldingsNow)))
        /\ HoldingsNow = Zero => NewPoint = current_balance

\* C28: every row of the ledger has an amount of 0 or more and a price that
\* is absent or 0 or more, whatever the oracle proposed.
C28_RowsNonNegative ==
    \A i \in DOMAIN txs :
        /\ txs[i].amount # NULL /\ RGe(txs[i].amount, Zero)
        /\ txs[i].price = NULL \/ RGe(txs[i].price, Zero)

\* C29: an executed BUY conserves cash + sum of shares * avg_price: the cash
\* falls by the amount and the bought asset's shares * avg_price rises by
\* the amount, in the live cycle and in the reducer's BUY step.
CostTotal(st) == RAdd(st.balance, HoldingsValue(st.portfolio))

C29_BuyConservesCost ==
    /\ (Cycle /\ last.outcome = "BUY") =>
            /\ current_balance = RSub(last.balance, last.amount)
            /\ CostValue(portfolio, last.decision.asset)
                    = RAdd(PreAssetValue, last.amount)
            /\ RAdd(current_balance, HoldingsValue(portfolio)) = PreTotal
    /\ \A k \in DOMAIN txs :
            txs[k].category = "BUY" => CostTotal(Prefix(k)) = CostTotal(Prefix(k - 1))

\* C30: in a ledger written by startups, cycles and deposits run one after
\* another, every SELL row names an asset that has a position at that point
\* of the replay, with shares of at least amount / price: the reducer's
\* max(0, ...) and its SELL on no position are never reached.
C30_SellRowsCovered ==
    \A k \in DOMAIN txs :
        txs[k].category = "SELL" =>
            LET pre == Prefix(k - 1).portfolio
            IN  /\ txs[k].asset \in DOMAIN pre
                /\ RGe(pre[txs[k].asset].shares,
                       RDiv(RowAmount(txs[k]), RowPx(txs[k])))

\* C27: the cash is never negative, however the cycles of the scheduler and
\* of the manual requests interleave.
C27_CashNeverNegative == RGe(current_balance, Zero)

====
